---- MODULE Spec2Model ----
(***************************************************************************)
(* Event form: optimistic per-field synchronisation (useAtomicField), the   *)
(* mock remote store (handlers.ts), the publish gate (ValidationStatus)     *)
(* and the validators (lib/validation, lib/validation-dynamic).             *)
(*                                                                          *)
(* JavaScript objects are modelled as functions from key strings to values; *)
(* an absent key is a key outside the DOMAIN.  Objects are values: the      *)
(* reference sharing of the query cache is not modelled.  A field path      *)
(* "metadata.title" is the sequence <<"metadata", "title">> (path.split).   *)
(***************************************************************************)
EXTENDS Integers, Sequences, FiniteSets, TLC

\* ------------------------------------------------------------------------
\* Bounds of the model
\* ------------------------------------------------------------------------
MaxEntries == 2      \* longest persons collection of a validated document
MaxMin == 2          \* largest minimumEntries of an enumerated section rule
MaxRules == 2        \* longest enumerated rule set
MaxCalls == 1        \* updateValue calls in one behaviour of the form
MaxBurst == 3        \* updateValue calls in one behaviour of a single field
MaxPublish == 2      \* publish clicks in one behaviour
MaxOps == 3          \* section inserts and removals started in one behaviour
MaxEdits == 2        \* updateValue calls on a field that unmounts, or on an entity field
MaxCreates == 2      \* create-draft requests started in one behaviour

\* ------------------------------------------------------------------------
\* Objects
\* ------------------------------------------------------------------------
Undef == "undefined"
EmptyObj == <<>>

\* no document under the id: mockEvents.get(eventId), mockEventStore[eventId]
\* or getQueryData(eventQueryKey) is undefined
Absent == [absent |-> TRUE]

Get(obj, k) == IF k \in DOMAIN obj THEN obj[k] ELSE Undef

Put(obj, k, v) == [x \in (DOMAIN obj) \cup {k} |-> IF x = k THEN v ELSE obj[x]]

\* { ...a, ...b }
Spread(a, b) == [x \in (DOMAIN a) \cup (DOMAIN b) |-> IF x \in DOMAIN b THEN b[x] ELSE a[x]]

\* keys whose values are nested objects in an event document
ObjectKeys == {"metadata"}

RECURSIVE setNestedValue(_, _, _)
setNestedValue(obj, path, value) ==
  IF Len(path) = 1
  THEN Put(obj, path[1], value)
  ELSE LET key == path[1]
           child == IF key \in DOMAIN obj /\ key \in ObjectKeys THEN obj[key] ELSE EmptyObj
       IN  Put(obj, key, setNestedValue(child, Tail(path), value))

RECURSIVE getNestedValue(_, _)
getNestedValue(obj, path) ==
  IF Len(path) = 1
  THEN Get(obj, path[1])
  ELSE IF path[1] \in DOMAIN obj /\ path[1] \in ObjectKeys
       THEN getNestedValue(obj[path[1]], Tail(path))
       ELSE Undef

\* ------------------------------------------------------------------------
\* Entities and documents
\* ------------------------------------------------------------------------
PersonRoles == {"suspect", "victim", "witness", "employee"}
Priorities == {"low", "medium", "high", "critical"}
EventTypes == {"shoplifting", "accident", "vandalism"}

Person(id, name) == [id |-> id, name |-> name, role |-> "witness", age |-> 40]
Product(id, name, qty) == [id |-> id, name |-> name, quantity |-> qty, unitValue |-> 1]
Vehicle(id, make) == [id |-> id, make |-> make, model |-> "m"]

IdxStr(i) == CASE i = 1 -> "0" [] i = 2 -> "1" [] i = 3 -> "2" [] OTHER -> "n"

Metadata(title, description) ==
  [title |-> title, description |-> description, priority |-> "medium", occurredAt |-> "2024-01-01T00:00:00Z"]

Sections(persons, products, vehicles) ==
  [persons |-> persons, products |-> products, vehicles |-> vehicles]

NoValidation == [isValid |-> FALSE, canPublish |-> FALSE, errorCount |-> 0]

Event(type, status, metadata, sections) ==
  [id |-> "e1", eventType |-> type, organizationId |-> "org", siteId |-> "site",
   status |-> status, metadata |-> metadata, sections |-> sections,
   validation |-> NoValidation]

SectionData(event, sectionId) ==
  IF "sections" \in DOMAIN event /\ sectionId \in DOMAIN event["sections"]
  THEN event["sections"][sectionId] ELSE <<>>

\* ------------------------------------------------------------------------
\* Section rules (SectionConfig) and the mock configuration
\* ------------------------------------------------------------------------
SectionConfig(sectionId, displayName, required, minimumEntries) ==
  [sectionId |-> sectionId, displayName |-> displayName,
   required |-> required, minimumEntries |-> minimumEntries]

\* EventTypeConfig; Unresolved is the config query without data (undefined)
EventTypeConfig(sections) == [resolved |-> TRUE, sections |-> sections]
Unresolved == [resolved |-> FALSE, sections |-> <<>>]

mockEventTypes(type) ==
  CASE type = "shoplifting" -> EventTypeConfig(
         << SectionConfig("persons", "Persons Involved", TRUE, 1),
            SectionConfig("products", "Products Involved", TRUE, 1) >>)
    [] type = "accident" -> EventTypeConfig(
         << SectionConfig("persons", "Persons Involved", TRUE, 1),
            SectionConfig("vehicles", "Vehicles Involved", FALSE, 0) >>)
    [] type = "vandalism" -> EventTypeConfig(
         << SectionConfig("persons", "Persons Involved", FALSE, 0),
            SectionConfig("evidence", "Evidence", TRUE, 1) >>)
    [] OTHER -> Unresolved

\* ------------------------------------------------------------------------
\* Validation results and zod issues
\* ------------------------------------------------------------------------
Msg(text) == [text |-> text, n |-> 0, name |-> ""]

Issue(path, text) == [path |-> path, message |-> Msg(text)]

RECURSIVE Flatten(_)
Flatten(ss) == IF ss = <<>> THEN <<>> ELSE Head(ss) \o Flatten(Tail(ss))

Push(f, k, m) == IF k \in DOMAIN f THEN [f EXCEPT ![k] = Append(@, m)] ELSE Put(f, k, <<m>>)

EmptyResult ==
  [isValid |-> FALSE, canPublish |-> FALSE, errors |-> EmptyObj,
   fieldErrors |-> EmptyObj, sectionErrors |-> EmptyObj]

\* the catch block of validateEvent: error.issues.forEach(...)
RECURSIVE processIssues(_, _)
processIssues(result, issues) ==
  IF issues = <<>> THEN result
  ELSE LET err == Head(issues)
           path == err.path
           r1 == IF Len(path) > 0
                 THEN IF path[1] = "sections"
                      THEN [result EXCEPT !.sectionErrors = Push(@, path[2], err.message)]
                      ELSE [result EXCEPT !.fieldErrors = Put(@, path, err.message)]
                 ELSE result
           r2 == [r1 EXCEPT !.errors = Push(@, path, err.message)]
       IN  processIssues(r2, Tail(issues))

\* ------------------------------------------------------------------------
\* zod schemas of lib/validation (static, per event type)
\* ------------------------------------------------------------------------
stringMin1(obj, key, prefix, text) ==
  IF key \notin DOMAIN obj THEN << Issue(prefix \o <<key>>, "Required") >>
  ELSE IF obj[key] = "" THEN << Issue(prefix \o <<key>>, text) >>
  ELSE <<>>

enumOf(obj, key, prefix, allowed) ==
  IF key \notin DOMAIN obj THEN << Issue(prefix \o <<key>>, "Required") >>
  ELSE IF obj[key] \notin allowed THEN << Issue(prefix \o <<key>>, "Invalid enum value") >>
  ELSE <<>>

personSchema(p, prefix) ==
  stringMin1(p, "name", prefix, "Name is required") \o enumOf(p, "role", prefix, PersonRoles)

vehicleSchema(v, prefix) ==
  stringMin1(v, "make", prefix, "Make is required") \o stringMin1(v, "model", prefix, "Model is required")

productSchema(p, prefix) ==
  stringMin1(p, "name", prefix, "Product name is required")
  \o (IF p.quantity < 1 THEN << Issue(prefix \o <<"quantity">>, "Quantity must be at least 1") >> ELSE <<>>)
  \o (IF p.unitValue < 0 THEN << Issue(prefix \o <<"unitValue">>, "Unit value must be non-negative") >> ELSE <<>>)

unknownSchema(e, prefix) == <<>>

\* z.array(element).min(minimum, text); optional = the key may be absent
arraySchema(sections, sectionId, minimum, text, optional, element(_, _)) ==
  IF sectionId \notin DOMAIN sections
  THEN IF optional THEN <<>> ELSE << Issue(<<"sections", sectionId>>, "Required") >>
  ELSE LET arr == sections[sectionId]
       IN  (IF Len(arr) < minimum THEN << Issue(<<"sections", sectionId>>, text) >> ELSE <<>>)
           \o Flatten([i \in 1..Len(arr) |-> element(arr[i], <<"sections", sectionId, IdxStr(i)>>)])

baseEventMetadataSchema(event) ==
  IF "metadata" \notin DOMAIN event THEN << Issue(<<"metadata">>, "Required") >>
  ELSE LET m == event["metadata"]
       IN  stringMin1(m, "title", <<"metadata">>, "Title is required")
           \o enumOf(m, "priority", <<"metadata">>, Priorities)
           \o stringMin1(m, "occurredAt", <<"metadata">>, "Occurrence date/time is required")

baseEventSchema(event) ==
  enumOf(event, "status", <<>>, {"draft", "published"}) \o baseEventMetadataSchema(event)

shopliftingEventSchema(event) ==
  baseEventSchema(event)
  \o (IF "sections" \notin DOMAIN event THEN << Issue(<<"sections">>, "Required") >>
      ELSE arraySchema(event["sections"], "persons", 1,
                       "At least one person is required for shoplifting incidents", FALSE, personSchema)
           \o arraySchema(event["sections"], "products", 1,
                       "At least one product is required for shoplifting incidents", FALSE, productSchema)
           \o arraySchema(event["sections"], "vehicles", 0, "", TRUE, vehicleSchema))

accidentEventSchema(event) ==
  baseEventSchema(event)
  \o (IF "sections" \notin DOMAIN event THEN << Issue(<<"sections">>, "Required") >>
      ELSE arraySchema(event["sections"], "persons", 1,
                       "At least one person is required for accident reports", FALSE, personSchema)
           \o arraySchema(event["sections"], "vehicles", 0, "", TRUE, vehicleSchema)
           \o arraySchema(event["sections"], "products", 0, "", TRUE, productSchema))

vandalismEventSchema(event) ==
  baseEventSchema(event)
  \o (IF "sections" \notin DOMAIN event THEN << Issue(<<"sections">>, "Required") >>
      ELSE arraySchema(event["sections"], "persons", 0, "", TRUE, personSchema)
           \o arraySchema(event["sections"], "vehicles", 0, "", TRUE, vehicleSchema)
           \o arraySchema(event["sections"], "products", 0, "", TRUE, productSchema)
           \o arraySchema(event["sections"], "evidence", 1,
                       "At least one piece of evidence is required for vandalism reports", TRUE, unknownSchema))

\* z.discriminatedUnion('eventType', [...]): the issues eventSchema.parse throws
eventSchema(event) ==
  CASE Get(event, "eventType") = "shoplifting" -> shopliftingEventSchema(event)
    [] Get(event, "eventType") = "accident" -> accidentEventSchema(event)
    [] Get(event, "eventType") = "vandalism" -> vandalismEventSchema(event)
    [] OTHER -> << Issue(<<"eventType">>, "Invalid discriminator value") >>

\* lib/validation validateEvent (the validator behind useEventValidation)
validateEvent(event) ==
  LET issues == eventSchema(event)
  IN  IF issues = <<>>
      THEN [EmptyResult EXCEPT !.isValid = TRUE, !.canPublish = TRUE]
      ELSE processIssues(EmptyResult, issues)

\* ------------------------------------------------------------------------
\* lib/validation-dynamic: DynamicValidator
\* ------------------------------------------------------------------------
\* generatedEventSchema.parse: the structural pass (metadata and entity fields,
\* no per-type cardinality)
generatedEventSchema(event) ==
  baseEventSchema(event)
  \o (IF "sections" \notin DOMAIN event THEN <<>>
      ELSE arraySchema(event["sections"], "persons", 0, "", TRUE, personSchema)
           \o arraySchema(event["sections"], "products", 0, "", TRUE, productSchema)
           \o arraySchema(event["sections"], "vehicles", 0, "", TRUE, vehicleSchema))

\* sections.find(section => section.sectionId === sectionId): indices of the hits
FindConfig(sections, sectionId) == {i \in 1..Len(sections) : sections[i].sectionId = sectionId}

\* variant: the rule's required flag is not read
getSectionValidationRulesAllRequired(config, sectionId) ==
  IF ~config.resolved
  THEN [required |-> FALSE, minimumEntries |-> 0, displayName |-> sectionId]
  ELSE LET hits == FindConfig(config.sections, sectionId)
       IN  IF hits = {}
           THEN [required |-> FALSE, minimumEntries |-> 0, displayName |-> sectionId]
           ELSE LET sectionConfig == config.sections[CHOOSE i \in hits : \A j \in hits : i <= j]
                IN  [required |-> TRUE,
                     minimumEntries |-> sectionConfig.minimumEntries,
                     displayName |-> sectionConfig.displayName]

getSectionValidationRules(config, sectionId) ==
  IF ~config.resolved
  THEN [required |-> FALSE, minimumEntries |-> 0, displayName |-> sectionId]
  ELSE LET hits == FindConfig(config.sections, sectionId)
       IN  IF hits = {}
           THEN [required |-> FALSE, minimumEntries |-> 0, displayName |-> sectionId]
           ELSE LET sectionConfig == config.sections[CHOOSE i \in hits : \A j \in hits : i <= j]
                IN  [required |-> sectionConfig.required,
                     minimumEntries |-> sectionConfig.minimumEntries,
                     displayName |-> sectionConfig.displayName]

CardinalityMessage(rules) ==
  [text |-> IF rules.minimumEntries = 1 THEN "At least 1 NAME is required"
            ELSE "At least N NAME are required",
   n |-> rules.minimumEntries, name |-> rules.displayName]

\* the for loop over this.eventTypeConfig.sections
RECURSIVE cardinalityLoop(_, _, _, _)
cardinalityLoop(result, event, config, i) ==
  IF i > Len(config.sections) THEN result
  ELSE LET sectionId == config.sections[i].sectionId
           sectionData == SectionData(event, sectionId)
           rules == getSectionValidationRules(config, sectionId)
           next == IF rules.required /\ Len(sectionData) < rules.minimumEntries
                   THEN [result EXCEPT
                           !.sectionErrors = Put(@, sectionId, << CardinalityMessage(rules) >>),
                           !.errors = Put(@, <<"sections", sectionId>>, << CardinalityMessage(rules) >>)]
                   ELSE result
       IN  cardinalityLoop(next, event, config, i + 1)

\* variant: without a config the result stays invalid
validateEventDynamicPending(event, config) ==
  LET issues == generatedEventSchema(event)
  IN  IF issues # <<>>
      THEN processIssues(EmptyResult, issues)
      ELSE IF config.resolved /\ "sections" \in DOMAIN event
           THEN LET looped == cardinalityLoop(EmptyResult, event, config, 1)
                    hasValidationErrors == DOMAIN looped.sectionErrors # {}
                IN  [looped EXCEPT !.isValid = ~hasValidationErrors,
                                   !.canPublish = ~hasValidationErrors]
           ELSE EmptyResult

validateEventDynamic(event, config) ==
  LET issues == generatedEventSchema(event)
  IN  IF issues # <<>>
      THEN processIssues(EmptyResult, issues)
      ELSE IF config.resolved /\ "sections" \in DOMAIN event
           THEN LET looped == cardinalityLoop(EmptyResult, event, config, 1)
                    hasValidationErrors == DOMAIN looped.sectionErrors # {}
                IN  [looped EXCEPT !.isValid = ~hasValidationErrors,
                                   !.canPublish = ~hasValidationErrors]
           ELSE [EmptyResult EXCEPT !.isValid = TRUE, !.canPublish = TRUE]

\* ------------------------------------------------------------------------
\* mocks/handlers.ts: the remote store's validator
\* ------------------------------------------------------------------------
Blank(obj, key) == key \notin DOMAIN obj \/ obj[key] = ""

RECURSIVE requiredSectionErrors(_, _, _)
requiredSectionErrors(event, sections, i) ==
  IF i > Len(sections) THEN 0
  ELSE (IF sections[i].required /\ Len(SectionData(event, sections[i].sectionId)) < sections[i].minimumEntries
        THEN 1 ELSE 0)
       + requiredSectionErrors(event, sections, i + 1)

handlersValidateEvent(event) ==
  LET config == mockEventTypes(Get(event, "eventType"))
  IN  IF ~config.resolved
      THEN [isValid |-> FALSE, canPublish |-> FALSE, errorCount |-> 1]
      ELSE LET meta == IF "metadata" \in DOMAIN event THEN event["metadata"] ELSE EmptyObj
               errorCount == (IF Blank(meta, "title") THEN 1 ELSE 0)
                             + (IF Blank(meta, "description") THEN 1 ELSE 0)
                             + requiredSectionErrors(event, config.sections, 1)
           IN  [isValid |-> errorCount = 0, canPublish |-> errorCount = 0, errorCount |-> errorCount]

\* ------------------------------------------------------------------------
\* mocks/browser.ts: the config handler the application starts with
\* ------------------------------------------------------------------------
\* return HttpResponse.json(configs[eventType] || configs.shoplifting)
browserConfigs(type) ==
  CASE type = "accident" ->
         EventTypeConfig(<< SectionConfig("persons", "Persons Involved", TRUE, 1),
                            SectionConfig("vehicles", "Vehicles Involved", FALSE, 0) >>)
    [] type = "vandalism" ->
         EventTypeConfig(<< SectionConfig("persons", "Persons Involved", FALSE, 0),
                            SectionConfig("evidence", "Evidence", TRUE, 1) >>)
    [] OTHER ->
         EventTypeConfig(<< SectionConfig("persons", "Persons Involved", TRUE, 1),
                            SectionConfig("products", "Products Involved", TRUE, 1) >>)

\* ------------------------------------------------------------------------
\* Section validators
\* ------------------------------------------------------------------------
\* sectionSchemas / hybridSectionSchemas [sectionName].parse(sectionData)
sectionSchemas(sectionName, sectionData) ==
  LET sections == Put(EmptyObj, sectionName, sectionData)
  IN  CASE sectionName = "persons" -> arraySchema(sections, "persons", 0, "", FALSE, personSchema)
        [] sectionName = "vehicles" -> arraySchema(sections, "vehicles", 0, "", FALSE, vehicleSchema)
        [] sectionName = "products" -> arraySchema(sections, "products", 0, "", FALSE, productSchema)
        [] sectionName = "evidence" -> arraySchema(sections, "evidence", 0, "", FALSE, unknownSchema)
        [] OTHER -> <<>>

\* the catch block of validateSection: path = `${sectionName}.${err.path.join('.')}`
RECURSIVE sectionIssues(_, _)
sectionIssues(result, issues) ==
  IF issues = <<>> THEN result
  ELSE LET err == Head(issues)
           path == Tail(err.path)
           r1 == [result EXCEPT !.fieldErrors = Put(@, path, err.message)]
           r2 == [r1 EXCEPT !.errors = Push(@, path, err.message)]
       IN  sectionIssues(r2, Tail(issues))

\* DynamicValidator.validateSection
validateSectionDynamic(sectionName, sectionData, config) ==
  LET rules == getSectionValidationRules(config, sectionName)
      issues == sectionSchemas(sectionName, sectionData)
  IN  IF issues # <<>> THEN sectionIssues(EmptyResult, issues)
      ELSE IF rules.required /\ Len(sectionData) < rules.minimumEntries
           THEN [EmptyResult EXCEPT !.sectionErrors = Put(@, sectionName, << CardinalityMessage(rules) >>)]
           ELSE [EmptyResult EXCEPT !.isValid = TRUE,
                                    !.canPublish = Len(sectionData) >= rules.minimumEntries]

\* lib/validation eventTypeValidationConfig: requiredSections and minimumEntries
eventTypeValidationConfig(type) ==
  CASE type = "shoplifting" ->
         EventTypeConfig(<< SectionConfig("persons", "persons", TRUE, 1),
                            SectionConfig("products", "products", TRUE, 1) >>)
    [] type = "accident" ->
         EventTypeConfig(<< SectionConfig("persons", "persons", TRUE, 1) >>)
    [] type = "vandalism" ->
         EventTypeConfig(<< SectionConfig("evidence", "evidence", TRUE, 1) >>)
    [] OTHER -> Unresolved

\* lib/validation validateSection
validateSection(sectionName, sectionData, eventType) ==
  LET config == eventTypeValidationConfig(eventType)
  IN  IF ~config.resolved
      THEN [EmptyResult EXCEPT !.errors = Put(@, <<"eventType">>, << Msg("Unknown event type") >>)]
      ELSE LET issues == sectionSchemas(sectionName, sectionData)
               hits == FindConfig(config.sections, sectionName)
               isRequired == hits # {}
               minimumEntries == IF hits = {} THEN 0
                                 ELSE config.sections[CHOOSE i \in hits : TRUE].minimumEntries
           IN  IF issues # <<>> THEN sectionIssues(EmptyResult, issues)
               ELSE IF isRequired /\ Len(sectionData) < minimumEntries
                    THEN [EmptyResult EXCEPT
                            !.sectionErrors = Put(@, sectionName,
                               << [text |-> "At least N NAME(s) required", n |-> minimumEntries,
                                   name |-> sectionName] >>)]
                    ELSE [EmptyResult EXCEPT !.isValid = TRUE,
                                             !.canPublish = Len(sectionData) >= minimumEntries]

\* ------------------------------------------------------------------------
\* lib/validation validateField
\* ------------------------------------------------------------------------
\* testData after the loop: { ...eventData } with the value set at the path
validateFieldTestData(fieldPath, value, eventData) == setNestedValue(eventData, fieldPath, value)

\* eventData after the call: the spread copies the top level only, so for a
\* nested path `current` walks into the caller's own nested objects and the
\* assignment current[last] = value lands in them
validateFieldEventData(fieldPath, value, eventData) ==
  IF Len(fieldPath) > 1 /\ fieldPath[1] \in DOMAIN eventData
  THEN Put(eventData, fieldPath[1], validateFieldTestData(fieldPath, value, eventData)[fieldPath[1]])
  ELSE eventData

validateField(fieldPath, value, eventData) ==
  LET validation == validateEvent(validateFieldTestData(fieldPath, value, eventData))
  IN  [isValid |-> fieldPath \notin DOMAIN validation.fieldErrors,
       error |-> IF fieldPath \in DOMAIN validation.fieldErrors
                 THEN << validation.fieldErrors[fieldPath] >> ELSE <<>>]

\* ------------------------------------------------------------------------
\* State
\* ------------------------------------------------------------------------
VARIABLES
  vEvent,      \* validation: the document handed to the validator
  vConfig,     \* validation: the rule set (event type config) or Unresolved
  vResult,     \* validation: [fn, config, result] of the last validator run
  server,      \* mockEvents: the remote document
  cache,       \* query cache: the cached document
  rendered,    \* the cached document as of the last render (props, useMemo)
  localValue,  \* per field path: useState localValue
  isUpdating,  \* per field path: useState isUpdating
  error,       \* per field path: useState error is set
  timer,       \* per field path: values of the pending debounce timers
  mutations,   \* field writes dispatched and not yet settled
  fetch,       \* the refetch of the event query
  publish,     \* the publish mutation
  hist,        \* history: call counts and the calls of the current burst per field
  sec,         \* section endpoints: store, section queries, requests in flight
  mounted,     \* per field path: the component holding the hook is mounted
  worker,      \* the mock worker installed: mocks/handlers.ts or mocks/browser.ts
  demo         \* EventFormDemo: its state, the config query and the create requests

\* vvars: what the field and publish steps leave alone; svars: what the
\* validator steps leave alone
vvars == << vEvent, vConfig, vResult, sec, mounted, worker, demo >>
svars == << server, cache, rendered, localValue, isUpdating, error, timer,
            mutations, fetch, publish, hist, sec, mounted, worker, demo >>
vars == << vEvent, vConfig, vResult, server, cache, rendered, localValue,
           isUpdating, error, timer, mutations, fetch, publish, hist, sec, mounted,
           worker, demo >>

\* the field paths of EventMetadataSection that the model edits
Paths == { <<"metadata", "title">>, <<"metadata", "description">> }
Values == {"", "x"}

\* the document POST /events creates, with the given metadata and sections
DraftEvent(title, description, sections) ==
  Event("shoplifting", "draft", Metadata(title, description), sections)

NoSections == Sections(<<>>, <<>>, <<>>)
FullSections == Sections(<< Person("p1", "Jane") >>, << Product("q1", "Soap", 1) >>, <<>>)

NoFetch == [phase |-> "none"]

\* the sections that have their own endpoints and queries
SectionIds == {"persons", "products", "vehicles"}

\* mockSectionStore empty, section queries loaded, nothing in flight; stale
\* holds the invalidated section queries, eventStale the sections whose
\* insert invalidated the event query, ids the last reading of the clock and
\* issued the ids each section's POST handler has given out
NoSec ==
  [store |-> [s \in SectionIds |-> <<>>],
   query |-> [s \in SectionIds |-> <<>>],
   stale |-> {},
   eventStale |-> {},
   reqs |-> {},
   ids |-> 0, inserts |-> 0, removes |-> 0,
   issued |-> [s \in SectionIds |-> {}]]

NoPublish == [phase |-> "idle", error |-> FALSE]

\* EventFormDemo's useState(null) for draftEventId; the ids POST /events
\* issues (uuidv4) are numbered in the order of creation
NoDraft == 0

\* EventFormDemo as first rendered: nothing selected, no draft, no config
\* loaded, no request in flight, and the drafts mockEvents holds
NoDemo ==
  [selectedEventType |-> "", draftEventId |-> NoDraft, isCreatingDraft |-> FALSE,
   configs |-> {}, loading |-> {}, requests |-> {}, mockEvents |-> <<>>, creates |-> 0]

\* the field hooks idle over a stored entry and a cached entry
MountedOn(stored, cached) ==
  /\ demo = NoDemo
  /\ server = stored
  /\ cache = cached
  /\ rendered = cached
  /\ localValue = [f \in Paths |-> getNestedValue(cached, f)]
  /\ isUpdating = [f \in Paths |-> FALSE]
  /\ error = [f \in Paths |-> FALSE]
  /\ timer = [f \in Paths |-> {}]
  /\ mutations = {}
  /\ fetch = NoFetch
  /\ publish = NoPublish
  /\ sec = NoSec
  /\ mounted = [f \in Paths |-> TRUE]
  /\ hist = [calls |-> 0, writes |-> 0, clicks |-> 0,
             dropped |-> [f \in Paths |-> {}],
             lastCall |-> [f \in Paths |-> Undef],
             lastBase |-> [f \in Paths |-> Undef],
             burst |-> [f \in Paths |-> 0],
             changed |-> [f \in Paths |-> FALSE],
             wrote |-> [f \in Paths |-> FALSE]]

\* the form mounted on a loaded document, nothing pending
Mounted(doc) == MountedOn(doc, doc) /\ worker = "handlers"

\* ------------------------------------------------------------------------
\* Validation of enumerated documents and rule sets
\* ------------------------------------------------------------------------
PersonIds == << "p1", "p2", "p3", "p4" >>
Names == {"", "Jane"}

PersonSeqs ==
  UNION { { [i \in 1..n |-> Person(PersonIds[i], f[i])] : f \in [1..n -> Names] } : n \in 0..MaxEntries }

VEvents ==
  { Event(type, "draft", Metadata(title, ""), Sections(persons, products, vehicles)) :
      type \in EventTypes, title \in {"", "Theft"}, persons \in PersonSeqs,
      products \in { <<>>, << Product("q1", "Soap", 1) >> },
      vehicles \in { <<>>, << Vehicle("v1", "Audi") >> } }

RuleSections == {"persons", "products", "vehicles"}

Rules ==
  { SectionConfig(id, id, required, minimum) :
      id \in RuleSections, required \in BOOLEAN, minimum \in 0..MaxMin }

\* rule sets name each section at most once
VConfigs ==
  { EventTypeConfig(c) :
      c \in UNION { { c \in [1..n -> Rules] : \A i, j \in 1..n : c[i].sectionId = c[j].sectionId => i = j }
                    : n \in 0..MaxRules } }

NoRun == [fn |-> "none", config |-> Unresolved, result |-> EmptyResult]

\* useEventValidationOptimized: the virtual event built from the section queries
eventWithSections(event) ==
  Put(event, "sections", Put(event["sections"], "evidence", <<>>))

InitV ==
  /\ vEvent \in VEvents
  /\ vConfig \in VConfigs \cup {Unresolved}
  /\ vResult = NoRun
  /\ Mounted(DraftEvent("", "", NoSections))

\* useEventValidationOptimized.validationResult (useMemo over event and config)
useEventValidationOptimized ==
  /\ vResult = NoRun
  /\ vResult' = [fn |-> "dynamic", config |-> vConfig,
                 result |-> validateEventDynamic(eventWithSections(vEvent), vConfig)]
  /\ UNCHANGED << vEvent, vConfig, svars >>

\* useEventValidation.validationResult (useMemo over event)
useEventValidation ==
  /\ vResult = NoRun
  /\ vResult' = [fn |-> "static", config |-> vConfig, result |-> validateEvent(vEvent)]
  /\ UNCHANGED << vEvent, vConfig, svars >>

\* the event type config query resolves; the memo is recomputed on next render
ConfigResolved ==
  /\ ~vConfig.resolved
  /\ vConfig' = mockEventTypes(vEvent["eventType"])
  /\ vResult' = NoRun
  /\ UNCHANGED << vEvent, svars >>

NextV == useEventValidationOptimized \/ useEventValidation \/ ConfigResolved

SpecV == InitV /\ [][NextV]_vars

\* ------------------------------------------------------------------------
\* Validation with the rule sets the mock handlers serve
\* ------------------------------------------------------------------------
\* the event types a document can carry: eventType is a string, the three
\* configured types and one that no schema and no config names
DocTypes == EventTypes \cup {"burglary"}

EvidenceSeqs == { <<>>, << [id |-> "x1"] >> }

\* documents as the event query holds them: with or without an evidence key
TEvents ==
  { Event(type, "draft", Metadata(title, ""), sections) :
      type \in DocTypes, title \in {"", "Theft"},
      sections \in
        { Sections(persons, products, vehicles) :
            persons \in PersonSeqs,
            products \in { <<>>, << Product("q1", "Soap", 1) >> },
            vehicles \in { <<>>, << Vehicle("v1", "Audi") >> } }
        \cup
        { Put(Sections(persons, <<>>, <<>>), "evidence", evidence) :
            persons \in PersonSeqs, evidence \in EvidenceSeqs } }

\* the config query starts without data
InitT ==
  /\ vEvent \in TEvents
  /\ vConfig = Unresolved
  /\ vResult = NoRun
  /\ Mounted(DraftEvent("", "", NoSections))

\* the config query answered by mocks/browser.ts
browserConfigResolved ==
  /\ ~vConfig.resolved
  /\ vConfig' = browserConfigs(vEvent["eventType"])
  /\ vResult' = NoRun
  /\ UNCHANGED << vEvent, svars >>

SectionNames == {"persons", "products", "vehicles", "evidence"}

\* useEventValidationOptimized.validateEventSection(sectionName)
validateEventSection(sectionName) ==
  /\ vResult = NoRun
  /\ vResult' = [fn |-> "section", config |-> vConfig, section |-> sectionName,
                 result |-> validateSectionDynamic(
                              sectionName,
                              SectionData(eventWithSections(vEvent), sectionName),
                              vConfig)]
  /\ UNCHANGED << vEvent, vConfig, svars >>

\* useEventValidation.validateEventSection(sectionName)
validateEventSectionStatic(sectionName) ==
  /\ vResult = NoRun
  /\ vResult' = [fn |-> "staticSection", config |-> vConfig, section |-> sectionName,
                 result |-> validateSection(sectionName, SectionData(vEvent, sectionName),
                                            vEvent["eventType"])]
  /\ UNCHANGED << vEvent, vConfig, svars >>

FieldPaths == Paths \cup { <<"status">> }

\* useFieldValidation.queryFn: validateField(fieldPath, value, event)
useFieldValidation(fieldPath, value) ==
  /\ vResult = NoRun
  /\ vResult' = [fn |-> "field", config |-> vConfig, result |-> validateField(fieldPath, value, vEvent)]
  /\ vEvent' = validateFieldEventData(fieldPath, value, vEvent)
  /\ UNCHANGED << vConfig, svars >>

NextT ==
  \/ useEventValidationOptimized
  \/ useEventValidation
  \/ ConfigResolved
  \/ browserConfigResolved
  \/ \E sectionName \in SectionNames : validateEventSection(sectionName)
  \/ \E sectionName \in SectionNames : validateEventSectionStatic(sectionName)
  \/ \E fieldPath \in FieldPaths, value \in Values : useFieldValidation(fieldPath, value)

SpecT == InitT /\ [][NextT]_vars

\* ------------------------------------------------------------------------
\* What the claims call structural and cardinality violations
\* ------------------------------------------------------------------------
EntityOk(sectionId, e) ==
  CASE sectionId = "persons" -> e.name # "" /\ e.role \in PersonRoles
    [] sectionId = "products" -> e.name # "" /\ e.quantity >= 1 /\ e.unitValue >= 0
    [] sectionId = "vehicles" -> e.make # "" /\ e.model # ""
    [] OTHER -> TRUE

StructurallyValid(event) ==
  /\ Get(event["metadata"], "title") \notin {"", Undef}
  /\ Get(event["metadata"], "priority") \in Priorities
  /\ Get(event["metadata"], "occurredAt") \notin {"", Undef}
  /\ \A s \in DOMAIN event["sections"] :
       \A i \in 1..Len(event["sections"][s]) : EntityOk(s, event["sections"][s][i])

Shortfall(event, rule) ==
  rule.required /\ Len(SectionData(event, rule.sectionId)) < rule.minimumEntries

CardinalityTexts == {"At least 1 NAME is required", "At least N NAME are required"}

\* the cardinality messages a result holds for one section
CardinalityMessages(result, sectionId) ==
  IF sectionId \in DOMAIN result.sectionErrors
  THEN LET msgs == result.sectionErrors[sectionId]
       IN  {i \in 1..Len(msgs) : msgs[i].text \in CardinalityTexts}
  ELSE {}

DynamicRun == vResult.fn = "dynamic"

VDoc == eventWithSections(vEvent)

\* ------------------------------------------------------------------------
\* C8 (as claimed): with a resolved rule set the validator emits exactly one
\* section-level cardinality message for every required rule whose section
\* is short of minimumEntries, and none for any other rule.
\* ------------------------------------------------------------------------
C8_OneMessagePerShortRequiredRule ==
  (DynamicRun /\ vResult.config.resolved) =>
    \A i \in 1..Len(vResult.config.sections) :
      Cardinality(CardinalityMessages(vResult.result, vResult.config.sections[i].sectionId))
        = IF Shortfall(VDoc, vResult.config.sections[i]) THEN 1 ELSE 0

initialValue(f) ==
  LET v == getNestedValue(rendered, f) IN IF v = Undef THEN "" ELSE v

\* handlers.ts PATCH: applyUpdates(target, source), a recursive merge
RECURSIVE applyUpdates(_, _)
applyUpdates(target, source) ==
  [k \in (DOMAIN target) \cup (DOMAIN source) |->
     IF k \notin DOMAIN source THEN target[k]
     ELSE IF k \in ObjectKeys
          THEN applyUpdates(IF k \in DOMAIN target THEN target[k] ELSE EmptyObj, source[k])
          ELSE source[k]]

\* mocks/browser.ts PATCH handler: { ...currentEvent, ...updateDataObj,
\* sections: { ...currentEvent.sections, ...(updateDataObj.sections || {}) } }
browserPatch(currentEvent, updateDataObj) ==
  Put(Spread(currentEvent, updateDataObj), "sections",
      Spread(Get(currentEvent, "sections"),
             IF "sections" \in DOMAIN updateDataObj THEN updateDataObj["sections"] ELSE EmptyObj))

\* debouncedSave: the optimistic write of one field into the cached document
optimisticUpdate(old, f, value) ==
  IF old = Absent THEN old ELSE setNestedValue(old, f, value)

\* onMutate: the snapshot kept for rollback, taken from the cache as it is
\* when the mutation starts (after debouncedSave's optimistic write)
snapshotForRollback(before, optimistic) == optimistic

\* onMutate: if (!old) return old; return { ...old, ...variables.data }
onMutateMerge(old, data) == IF old = Absent THEN old ELSE Spread(old, data)

\* variant: a call arms a further timer and leaves the pending one running
restartTimerNoCancel(pending, value) == pending \cup {value}

\* updateValue: use-debounce restarts the single timer of the callback
restartTimer(pending, value) == {value}

\* variant: the early return is missing
unchangedGuardMissing(value, initial) == FALSE

\* debouncedSave: if (value === initialValue) return
unchangedGuard(value, initial) == value = initial

updateValue(f, v) ==
  /\ localValue' = [localValue EXCEPT ![f] = v]
  /\ timer' = [timer EXCEPT ![f] = restartTimer(@, v)]
  /\ hist' = [hist EXCEPT !.calls = @ + 1,
                          !.lastCall[f] = v,
                          !.lastBase[f] = initialValue(f),
                          !.burst[f] = IF timer[f] = {} THEN 1 ELSE @ + 1,
                          !.changed[f] = (IF timer[f] = {} THEN FALSE ELSE @) \/ v # initialValue(f),
                          !.wrote[f] = FALSE]
  /\ UNCHANGED << vvars, server, cache, rendered, isUpdating, error, mutations, fetch, publish >>

\* AtomicInput: <input value={value} onChange={(e) => updateValue(e.target.value)}>,
\* a controlled input reports a value that differs from the one it shows
onChange(f, v) ==
  /\ mounted[f]
  /\ v # localValue[f]
  /\ updateValue(f, v)

\* the debounce timer of field f expires: debouncedSave(value), which skips an
\* unchanged value and otherwise writes the cache optimistically and calls
\* patchEventMutation.mutate (onMutate runs before the request leaves)
debouncedSave(f, value) ==
  /\ value \in timer[f]
  /\ timer' = [timer EXCEPT ![f] = @ \ {value}]
  /\ IF unchangedGuard(value, initialValue(f))
     THEN UNCHANGED << cache, isUpdating, error, mutations, fetch, hist >>
     ELSE LET updateData == setNestedValue(EmptyObj, f, value)
              optimistic == optimisticUpdate(cache, f, value)
              previousEvent == snapshotForRollback(cache, optimistic)
          IN  /\ isUpdating' = [isUpdating EXCEPT ![f] = TRUE]
              /\ error' = [error EXCEPT ![f] = FALSE]
              /\ cache' = onMutateMerge(optimistic, updateData)
              /\ fetch' = NoFetch
              /\ mutations' = mutations \cup
                   { [id |-> hist.writes + 1, path |-> f, value |-> value, data |-> updateData,
                      previousEvent |-> previousEvent, phase |-> "sent",
                      preEdit |-> getNestedValue(cache, f), calls |-> hist.burst[f]] }
              /\ hist' = [hist EXCEPT !.writes = @ + 1, !.wrote[f] = TRUE]
  /\ UNCHANGED << vvars, server, rendered, localValue, publish >>

\* handlers.ts PATCH handler on the stored entry: 404 when there is none,
\* otherwise applyUpdates, validation and the stored event as the answer
handlersPatch(event, updates) ==
  IF event = Absent
  THEN [status |-> 404, store |-> event]
  ELSE LET merged == applyUpdates(event, updates)
       IN  [status |-> 200, store |-> Put(merged, "validation", handlersValidateEvent(merged))]

\* mocks/browser.ts PATCH handler on the stored entry: a missing entry is
\* created as the default event, then the update is merged and stored
browserPatchHandler(event, updateDataObj) ==
  LET defaultEvent == Event("shoplifting", "draft", Metadata("", ""),
                             Sections(<<>>, <<>>, <<>>))
  IN  [status |-> 200,
       store |-> browserPatch(IF event = Absent THEN defaultEvent ELSE event,
                              updateDataObj)]

\* PATCH /events/:eventId reaches the store: applyUpdates, then validation
serverPatch(m) ==
  /\ m.phase = "sent"
  /\ server' = handlersPatch(server, m.data).store
  /\ mutations' = (mutations \ {m}) \cup {[m EXCEPT !.phase = "applied"]}
  /\ UNCHANGED << vvars, cache, rendered, localValue, isUpdating, error, timer, fetch, publish, hist >>

\* after the simulated delay the handler answers with the stored event
serverRespond(m) ==
  /\ m.phase = "applied"
  /\ mutations' = (mutations \ {m}) \cup {Put([m EXCEPT !.phase = "responded"], "response", server)}
  /\ UNCHANGED << vvars, server, cache, rendered, localValue, isUpdating, error, timer, fetch, publish, hist >>

\* onSettled: setIsUpdating(false) and invalidateQueries, which (re)starts the
\* refetch of the event query
onSettled(f) ==
  /\ isUpdating' = [isUpdating EXCEPT ![f] = FALSE]
  /\ fetch' = [phase |-> "sent"]

\* the PATCH response arrives: onSuccess writes it to the cache, then onSettled
onSuccess(m) ==
  /\ m.phase = "responded"
  /\ cache' = m.response
  /\ onSettled(m.path)
  /\ mutations' = mutations \ {m}
  /\ UNCHANGED << vvars, server, rendered, localValue, error, timer, publish, hist >>

\* onError: setQueryData(previousEvent)
rollback(current, previousEvent) == previousEvent

\* the PATCH fails (transport failure before or after the store applied it):
\* onError rolls the cache back and reverts the draft, then onSettled
onError(m) ==
  /\ m.phase \in {"sent", "applied"}
  /\ cache' = rollback(cache, m.previousEvent)
  /\ localValue' = [localValue EXCEPT ![m.path] = initialValue(m.path)]
  /\ error' = [error EXCEPT ![m.path] = TRUE]
  /\ onSettled(m.path)
  /\ mutations' = mutations \ {m}
  /\ UNCHANGED << vvars, server, rendered, timer, publish, hist >>

\* GET /events/:eventId answers the refetch
serverGet ==
  /\ fetch.phase = "sent"
  /\ fetch' = [phase |-> "responded", doc |-> server]
  /\ UNCHANGED << vvars, server, cache, rendered, localValue, isUpdating, error, timer, mutations, publish, hist >>

\* the refetched document replaces the cached one
fetchSuccess ==
  /\ fetch.phase = "responded"
  /\ cache' = fetch.doc
  /\ fetch' = NoFetch
  /\ UNCHANGED << vvars, server, rendered, localValue, isUpdating, error, timer, mutations, publish, hist >>

\* the components re-render with the current cached document
Render ==
  /\ rendered # cache
  /\ rendered' = cache
  /\ UNCHANGED << vvars, server, cache, localValue, isUpdating, error, timer, mutations, fetch, publish, hist >>

\* useEventValidation: canPublish memoised over the rendered event
canPublish == validateEvent(rendered).canPublish

\* ValidationStatus.handlePublish: if (canPublish) publishMutation.mutate(...)
publishAllowed == canPublish

\* the publish button is shown for a draft and enabled unless a publish is pending
handlePublish ==
  /\ hist.clicks < MaxPublish
  /\ rendered["status"] # "published"
  /\ publish.phase = "idle"
  /\ publishAllowed
  /\ publish' = [phase |-> "sent", error |-> FALSE,
                 fresh |-> validateEvent(cache).canPublish]
  /\ hist' = [hist EXCEPT !.clicks = @ + 1]
  /\ UNCHANGED << vvars, server, cache, rendered, localValue, isUpdating, error, timer, mutations, fetch >>

\* variant: a failed validation takes the stored event back to draft
publishStoreReverting(event) ==
  IF handlersValidateEvent(event).canPublish
  THEN Put(event, "status", "published")
  ELSE Put(event, "status", "draft")

\* the publish handler's effect on the stored event: event.status = 'published'
\* when validation passes, nothing on a 400
publishStore(event) ==
  IF handlersValidateEvent(event).canPublish
  THEN Put(event, "status", "published")
  ELSE event

\* POST /events/:eventId/publish
serverPublish ==
  /\ publish.phase = "sent"
  /\ server' = publishStore(server)
  /\ IF handlersValidateEvent(server).canPublish
     THEN publish' = Put([publish EXCEPT !.phase = "accepted"], "doc", publishStore(server))
     ELSE publish' = [publish EXCEPT !.phase = "rejected"]
  /\ UNCHANGED << vvars, cache, rendered, localValue, isUpdating, error, timer, mutations, fetch, hist >>

\* publishMutation.onSuccess: setQueryData(["events", eventId], data)
publishSuccess ==
  /\ publish.phase = "accepted"
  /\ cache' = publish.doc
  /\ publish' = NoPublish
  /\ UNCHANGED << vvars, server, rendered, localValue, isUpdating, error, timer, mutations, fetch, hist >>

\* the publish request is rejected (400): publishMutation.error is shown
publishError ==
  /\ publish.phase = "rejected"
  /\ publish' = [phase |-> "idle", error |-> TRUE]
  /\ UNCHANGED << vvars, server, cache, rendered, localValue, isUpdating, error, timer, mutations, fetch, hist >>

InitEvents ==
  { DraftEvent("x", "", FullSections), DraftEvent("x", "x", FullSections) }

Init ==
  /\ vEvent = DraftEvent("", "", NoSections)
  /\ vConfig = Unresolved
  /\ vResult = NoRun
  /\ \E doc \in InitEvents : Mounted(doc)

Next ==
  \/ \E f \in Paths, v \in Values : hist.calls < MaxCalls /\ onChange(f, v)
  \/ \E f \in Paths, v \in Values : debouncedSave(f, v)
  \/ \E m \in mutations : serverPatch(m)
  \/ \E m \in mutations : serverRespond(m)
  \/ \E m \in mutations : onSuccess(m)
  \/ \E m \in mutations : onError(m)
  \/ serverGet
  \/ fetchSuccess
  \/ Render
  \/ handlePublish
  \/ serverPublish
  \/ publishSuccess
  \/ publishError

Spec == Init /\ [][Next]_vars

\* ------------------------------------------------------------------------
\* One field hook instance: the title field of a loaded document
\* ------------------------------------------------------------------------
TitlePath == <<"metadata", "title">>

InitField ==
  /\ vEvent = DraftEvent("", "", NoSections)
  /\ vConfig = Unresolved
  /\ vResult = NoRun
  /\ \E title \in Values : Mounted(DraftEvent(title, "x", FullSections))

NextField ==
  \/ \E v \in Values : hist.calls < MaxBurst /\ onChange(TitlePath, v)
  \/ \E v \in Values : debouncedSave(TitlePath, v)
  \/ \E m \in mutations : serverPatch(m)
  \/ \E m \in mutations : serverRespond(m)
  \/ \E m \in mutations : onSuccess(m)
  \/ \E m \in mutations : onError(m)
  \/ serverGet
  \/ fetchSuccess
  \/ Render

SpecField == InitField /\ [][NextField]_vars

\* ------------------------------------------------------------------------
\* The title field hook of a loaded document and the unmount of its component
\* ------------------------------------------------------------------------
\* variant: the pending timer outlives the component and still invokes
unmountTimerKept(pending) == pending

\* useDebouncedCallback after the unmount: the pending timer expires without
\* invoking debouncedSave
unmountTimer(pending) == {}

\* the component of field f unmounts: the hook's state setters and its
\* debounced callback go, the mutations it started stay with the query client
unmount(f) ==
  /\ mounted[f]
  /\ mounted' = [mounted EXCEPT ![f] = FALSE]
  /\ timer' = [timer EXCEPT ![f] = unmountTimer(@)]
  /\ hist' = [hist EXCEPT !.dropped[f] = timer[f]]
  /\ UNCHANGED << vEvent, vConfig, vResult, sec, server, cache, rendered, localValue,
                  isUpdating, error, mutations, fetch, publish, worker, demo >>

InitU ==
  /\ vEvent = DraftEvent("", "", NoSections)
  /\ vConfig = Unresolved
  /\ vResult = NoRun
  /\ \E title \in Values : Mounted(DraftEvent(title, "x", FullSections))

NextU ==
  \/ \E v \in Values : hist.calls < MaxEdits /\ onChange(TitlePath, v)
  \/ \E v \in Values : debouncedSave(TitlePath, v)
  \/ unmount(TitlePath)
  \/ \E m \in mutations : serverPatch(m)
  \/ \E m \in mutations : serverRespond(m)
  \/ \E m \in mutations : onSuccess(m)
  \/ \E m \in mutations : onError(m)
  \/ serverGet
  \/ fetchSuccess
  \/ Render

\* the mock server handles every request it received and answers it, and the
\* query client runs the callbacks of every answered request; timers expire
FairnessU ==
  /\ WF_vars(\E v \in Values : debouncedSave(TitlePath, v))
  /\ WF_vars(\E m \in mutations : serverPatch(m))
  /\ WF_vars(\E m \in mutations : serverRespond(m))
  /\ WF_vars(\E m \in mutations : onSuccess(m))

SpecU == InitU /\ [][NextU]_vars /\ FairnessU

\* ------------------------------------------------------------------------
\* PATCH /events/:eventId and the cache writes of a field write, applied to
\* an id that the store or the cache may not know
\* ------------------------------------------------------------------------
\* the stored entry and the cached entry are drawn independently
InitP ==
  /\ vEvent = DraftEvent("", "", NoSections)
  /\ vConfig = Unresolved
  /\ vResult = NoRun
  /\ \E stored \in { Absent, DraftEvent("x", "x", FullSections) },
        cached \in { Absent, DraftEvent("x", "x", FullSections) } :
       MountedOn(stored, cached)
  /\ worker \in {"handlers", "browser"}

\* a PATCH of one field path served by mocks/handlers.ts
handlersPatchEvent(f, v) ==
  LET answer == handlersPatch(server, setNestedValue(EmptyObj, f, v))
  IN  /\ worker = "handlers"
      /\ server' = answer.store
      /\ vResult' = [fn |-> "patch", status |-> answer.status, data |-> answer.store]
      /\ UNCHANGED << vEvent, vConfig, cache, rendered, localValue, isUpdating, error,
                      timer, mutations, fetch, publish, hist, sec, mounted, worker, demo >>

\* a PATCH of one field path served by mocks/browser.ts
browserPatchEvent(f, v) ==
  LET answer == browserPatchHandler(server, setNestedValue(EmptyObj, f, v))
  IN  /\ worker = "browser"
      /\ server' = answer.store
      /\ vResult' = [fn |-> "patch", status |-> answer.status, data |-> answer.store]
      /\ UNCHANGED << vEvent, vConfig, cache, rendered, localValue, isUpdating, error,
                      timer, mutations, fetch, publish, hist, sec, mounted, worker, demo >>

\* the cache writes of a dispatch: debouncedSave's setQueryData, then onMutate's
cacheOnMutate(f, v) ==
  /\ cache' = onMutateMerge(optimisticUpdate(cache, f, v), setNestedValue(EmptyObj, f, v))
  /\ vResult' = [fn |-> "onMutate"]
  /\ UNCHANGED << vEvent, vConfig, server, rendered, localValue, isUpdating, error,
                  timer, mutations, fetch, publish, hist, sec, mounted, worker, demo >>

\* onSuccess of the answered PATCH: setQueryData(eventQueryKey, data)
cacheOnSuccess ==
  /\ vResult.fn = "patch" /\ vResult.status = 200
  /\ cache' = vResult.data
  /\ vResult' = [fn |-> "onSuccess"]
  /\ UNCHANGED << vEvent, vConfig, server, rendered, localValue, isUpdating, error,
                  timer, mutations, fetch, publish, hist, sec, mounted, worker, demo >>

NextP ==
  \/ \E f \in Paths, v \in Values : handlersPatchEvent(f, v)
  \/ \E f \in Paths, v \in Values : browserPatchEvent(f, v)
  \/ \E f \in Paths, v \in Values : cacheOnMutate(f, v)
  \/ cacheOnSuccess

SpecP == InitP /\ [][NextP]_vars

\* ------------------------------------------------------------------------
\* Section entities: insert and remove through the section endpoints
\* ------------------------------------------------------------------------
\* id: `person-${Date.now()}`: a fresh id per created entity
NewIds == << "n1", "n2", "n3", "n4", "n5" >>

\* the entity the modal submits, and the server's { id, ...data }
newEntity(sectionId, id) ==
  CASE sectionId = "persons" -> Person(id, "Jane")
    [] sectionId = "products" -> Product(id, "Soap", 1)
    [] OTHER -> Vehicle(id, "Audi")

\* array.filter(e => e.id !== id)
RECURSIVE filterOut(_, _)
filterOut(arr, id) ==
  IF arr = <<>> THEN <<>>
  ELSE IF Head(arr).id = id THEN filterOut(Tail(arr), id)
  ELSE << Head(arr) >> \o filterOut(Tail(arr), id)

EntityIds(arr) == {arr[i].id : i \in 1..Len(arr)}

\* variant: the updated event holds only the section written to
insertIntoCacheWholesale(oldEvent, sectionId, data) ==
  Put(oldEvent, "sections",
      Put(EmptyObj, sectionId, SectionData(oldEvent, sectionId) \o << data >>))

\* onSuccess of the add mutations: setQueryData(eventQueryKey, oldEvent => ...)
insertIntoCache(oldEvent, sectionId, data) ==
  Put(oldEvent, "sections",
      Put(Get(oldEvent, "sections"), sectionId, SectionData(oldEvent, sectionId) \o << data >>))

\* onSuccess of the delete mutations: setQueryData(eventQueryKey, oldEvent => ...)
removeFromCache(oldEvent, sectionId, id) ==
  Put(oldEvent, "sections",
      Put(Get(oldEvent, "sections"), sectionId, filterOut(SectionData(oldEvent, sectionId), id)))

Pending(kind, sectionId) == {r \in sec.reqs : r.kind = kind /\ r.section = sectionId}

\* AddPersonModal / AddProductModal / AddVehicleModal handleSubmit
insert(sectionId) ==
  /\ Pending("insert", sectionId) = {}
  /\ sec' = [sec EXCEPT
       !.reqs = @ \cup {[kind |-> "insert", section |-> sectionId, phase |-> "sent",
                         entity |-> newEntity(sectionId, "")]},
       !.inserts = @ + 1]
  /\ UNCHANGED << vEvent, vConfig, vResult, server, cache, rendered, localValue,
                  isUpdating, error, timer, mutations, fetch, publish, hist, mounted, worker, demo >>

\* PersonsSection.removePerson / ProductsSection.removeProduct: the Remove
\* button of a listed entity, disabled while the delete mutation is pending
remove(sectionId, id) ==
  /\ id \in EntityIds(sec.query[sectionId])
  /\ Pending("remove", sectionId) = {}
  /\ sec' = [sec EXCEPT
       !.reqs = @ \cup {[kind |-> "remove", section |-> sectionId, phase |-> "sent",
                         entity |-> CHOOSE e \in {sec.query[sectionId][i] : i \in 1..Len(sec.query[sectionId])} :
                                      e.id = id]},
       !.removes = @ + 1]
  /\ UNCHANGED << vEvent, vConfig, vResult, server, cache, rendered, localValue,
                  isUpdating, error, timer, mutations, fetch, publish, hist, mounted, worker, demo >>

\* mocks/browser.ts POST and DELETE handlers of the section endpoints
\* (Date.now() reads the millisecond of the reading before, or a later one)
sectionServer(r) ==
  /\ r \in sec.reqs /\ r.phase = "sent"
  /\ IF r.kind = "insert"
     THEN \E now \in {t \in {sec.ids, sec.ids + 1} : t >= 1} :
            LET created == newEntity(r.section, NewIds[now])
            IN  sec' = [sec EXCEPT
                   !.store[r.section] = Append(@, created),
                   !.ids = now,
                   !.issued[r.section] = @ \cup {created.id},
                   !.reqs = (@ \ {r}) \cup {[r EXCEPT !.phase = "ok", !.entity = created]}]
     ELSE sec' = [sec EXCEPT
                 !.store[r.section] = filterOut(@, r.entity.id),
                 !.reqs = (@ \ {r}) \cup {[r EXCEPT !.phase = "ok"]}]
  /\ UNCHANGED << vEvent, vConfig, vResult, server, cache, rendered, localValue,
                  isUpdating, error, timer, mutations, fetch, publish, hist, mounted, worker, demo >>

\* the request does not reach the handler (network error)
sectionRequestFails(r) ==
  /\ r \in sec.reqs /\ r.phase = "sent"
  /\ sec' = [sec EXCEPT !.reqs = (@ \ {r}) \cup {[r EXCEPT !.phase = "failed"]}]
  /\ UNCHANGED << vEvent, vConfig, vResult, server, cache, rendered, localValue,
                  isUpdating, error, timer, mutations, fetch, publish, hist, mounted, worker, demo >>

\* onSuccess of the add mutation: patch the event cache, invalidate the
\* section query and the event query
insertSuccess(r) ==
  /\ r \in sec.reqs /\ r.kind = "insert" /\ r.phase = "ok"
  /\ cache' = insertIntoCache(cache, r.section, r.entity)
  /\ sec' = [sec EXCEPT !.reqs = @ \ {r}, !.stale = @ \cup {r.section},
                         !.eventStale = @ \cup {r.section}]
  /\ UNCHANGED << vEvent, vConfig, vResult, server, rendered, localValue,
                  isUpdating, error, timer, mutations, fetch, publish, hist, mounted, worker, demo >>

\* onSuccess of the delete mutation: patch the event cache, invalidate the
\* section query
removeSuccess(r) ==
  /\ r \in sec.reqs /\ r.kind = "remove" /\ r.phase = "ok"
  /\ cache' = removeFromCache(cache, r.section, r.entity.id)
  /\ sec' = [sec EXCEPT !.reqs = @ \ {r}, !.stale = @ \cup {r.section}]
  /\ UNCHANGED << vEvent, vConfig, vResult, server, rendered, localValue,
                  isUpdating, error, timer, mutations, fetch, publish, hist, mounted, worker, demo >>

\* onError of the add mutation (console.error); the delete mutation has none
sectionError(r) ==
  /\ r \in sec.reqs /\ r.phase = "failed"
  /\ sec' = [sec EXCEPT !.reqs = @ \ {r}]
  /\ UNCHANGED << vEvent, vConfig, vResult, server, cache, rendered, localValue,
                  isUpdating, error, timer, mutations, fetch, publish, hist, mounted, worker, demo >>

\* the invalidated section query refetches: GET /events/:eventId/<section>
refetchSection(sectionId) ==
  /\ sectionId \in sec.stale
  /\ sec' = [sec EXCEPT !.query[sectionId] = sec.store[sectionId], !.stale = @ \ {sectionId}]
  /\ UNCHANGED << vEvent, vConfig, vResult, server, cache, rendered, localValue,
                  isUpdating, error, timer, mutations, fetch, publish, hist, mounted, worker, demo >>

\* the invalidated event query refetches: GET /events/:eventId
refetchEvent ==
  /\ sec.eventStale # {}
  /\ cache' = server
  /\ sec' = [sec EXCEPT !.eventStale = {}]
  /\ UNCHANGED << vEvent, vConfig, vResult, server, rendered, localValue,
                  isUpdating, error, timer, mutations, fetch, publish, hist, mounted, worker, demo >>

\* the default draft (shoplifting) with its title filled in, no entities
\* yet, its config query resolved
InitS ==
  /\ vEvent = Event("shoplifting", "draft", Metadata("", ""), NoSections)
  /\ vResult = NoRun
  /\ vConfig = browserConfigs("shoplifting")
  /\ LET doc == Event("shoplifting", "draft", Metadata("Theft", ""), NoSections)
     IN  MountedOn(doc, doc)
  /\ worker = "browser"

NextS ==
  \/ \E sectionId \in SectionIds : sec.inserts + sec.removes < MaxOps /\ insert(sectionId)
  \/ \E sectionId \in SectionIds : \E id \in EntityIds(sec.query[sectionId]) :
       sec.inserts + sec.removes < MaxOps /\ remove(sectionId, id)
  \/ \E r \in sec.reqs : sectionServer(r)
  \/ \E r \in sec.reqs : sectionRequestFails(r)
  \/ \E r \in sec.reqs : insertSuccess(r)
  \/ \E r \in sec.reqs : removeSuccess(r)
  \/ \E r \in sec.reqs : sectionError(r)
  \/ \E sectionId \in SectionIds : refetchSection(sectionId)
  \/ refetchEvent

SpecS == InitS /\ [][NextS]_vars

\* ------------------------------------------------------------------------
\* An entity field hook: the name field of a listed person
\* (useAtomicPersonField; the product and vehicle hooks are the same code)
\* ------------------------------------------------------------------------
NamePath == << "persons", "p1", "name" >>

\* the value of field fieldName of entity id in a collection, if listed
entityField(arr, id, fieldName) ==
  IF id \in EntityIds(arr)
  THEN (CHOOSE e \in {arr[i] : i \in 1..Len(arr)} : e.id = id)[fieldName]
  ELSE Undef

\* PersonsSection: initialValue={person.name || ""} from the persons query
personInitialValue == entityField(sec.query["persons"], NamePath[2], NamePath[3])

\* mocks/browser.ts PUT handler: { ...person, ...updateData } at the person's index
putPerson(arr, personId, updateData) ==
  [i \in 1..Len(arr) |-> IF arr[i].id = personId THEN Spread(arr[i], updateData) ELSE arr[i]]

InitE ==
  /\ vEvent = DraftEvent("", "", NoSections)
  /\ vConfig = Unresolved
  /\ vResult = NoRun
  /\ LET doc == Event("shoplifting", "draft", Metadata("Theft", ""), NoSections)
     IN  /\ server = doc /\ cache = doc /\ rendered = doc
  /\ sec = [NoSec EXCEPT !.store["persons"] = << Person("p1", "Jane") >>,
                         !.query["persons"] = << Person("p1", "Jane") >>]
  /\ localValue = [f \in {NamePath} |-> "Jane"]
  /\ isUpdating = [f \in {NamePath} |-> FALSE]
  /\ error = [f \in {NamePath} |-> FALSE]
  /\ timer = [f \in {NamePath} |-> {}]
  /\ mounted = [f \in {NamePath} |-> TRUE]
  /\ mutations = {}
  /\ fetch = NoFetch
  /\ publish = NoPublish
  /\ worker = "browser"
  /\ demo = NoDemo
  /\ hist = [calls |-> 0, writes |-> 0, failures |-> 0, mountValue |-> "Jane"]

\* useAtomicPersonField.updateValue, called by the controlled input
personUpdateValue(v) ==
  /\ v # localValue[NamePath]
  /\ localValue' = [localValue EXCEPT ![NamePath] = v]
  /\ timer' = [timer EXCEPT ![NamePath] = restartTimer(@, v)]
  /\ hist' = [hist EXCEPT !.calls = @ + 1]
  /\ UNCHANGED << vvars, server, cache, rendered, isUpdating, error, mutations, fetch, publish >>

\* the debounce timer expires: useAtomicPersonField.debouncedSave(value), which
\* skips an unchanged value and otherwise calls updatePersonMutation.mutate
personDebouncedSave(value) ==
  /\ value \in timer[NamePath]
  /\ timer' = [timer EXCEPT ![NamePath] = @ \ {value}]
  /\ IF unchangedGuard(value, personInitialValue)
     THEN UNCHANGED << isUpdating, error, mutations, hist >>
     ELSE /\ isUpdating' = [isUpdating EXCEPT ![NamePath] = TRUE]
          /\ error' = [error EXCEPT ![NamePath] = FALSE]
          /\ mutations' = mutations \cup
               { [id |-> hist.writes + 1, path |-> NamePath, value |-> value,
                  data |-> [name |-> value], phase |-> "sent",
                  preEdit |-> personInitialValue] }
          /\ hist' = [hist EXCEPT !.writes = @ + 1]
  /\ UNCHANGED << vvars, server, cache, rendered, localValue, fetch, publish >>

\* PUT /events/:eventId/persons/:personId reaches mockSectionStore
serverPutPerson(m) ==
  /\ m.phase = "sent"
  /\ sec' = [sec EXCEPT !.store["persons"] = putPerson(@, m.path[2], m.data)]
  /\ mutations' = (mutations \ {m}) \cup {[m EXCEPT !.phase = "responded"]}
  /\ UNCHANGED << vEvent, vConfig, vResult, mounted, worker, demo, server, cache, rendered,
                  localValue, isUpdating, error, timer, fetch, publish, hist >>

\* the PUT response arrives: onSuccess (no cache write), then onSettled
personOnSuccess(m) ==
  /\ m.phase = "responded"
  /\ isUpdating' = [isUpdating EXCEPT ![NamePath] = FALSE]
  /\ mutations' = mutations \ {m}
  /\ UNCHANGED << vvars, server, cache, rendered, localValue, error, timer, fetch, publish, hist >>

\* the PUT fails (transport failure before or after the store applied it):
\* onError reverts the draft and sets the message, then onSettled
personOnError(m) ==
  /\ localValue' = [localValue EXCEPT ![NamePath] = personInitialValue]
  /\ error' = [error EXCEPT ![NamePath] = TRUE]
  /\ isUpdating' = [isUpdating EXCEPT ![NamePath] = FALSE]
  /\ mutations' = mutations \ {m}
  /\ hist' = [hist EXCEPT !.failures = @ + 1]
  /\ UNCHANGED << vvars, server, cache, rendered, timer, fetch, publish >>

\* the persons query refetches (stale, or invalidated by an add or a remove)
refetchPersons ==
  /\ sec.query["persons"] # sec.store["persons"]
  /\ sec' = [sec EXCEPT !.query["persons"] = sec.store["persons"]]
  /\ UNCHANGED << vEvent, vConfig, vResult, mounted, worker, demo, server, cache, rendered,
                  localValue, isUpdating, error, timer, mutations, fetch, publish, hist >>

NextE ==
  \/ \E v \in {"", "Jane", "Bob"} : hist.calls < MaxEdits /\ personUpdateValue(v)
  \/ \E v \in {"", "Jane", "Bob"} : personDebouncedSave(v)
  \/ \E m \in mutations : serverPutPerson(m)
  \/ \E m \in mutations : personOnSuccess(m)
  \/ \E m \in mutations : personOnError(m)
  \/ refetchPersons

SpecE == InitE /\ [][NextE]_vars

\* ------------------------------------------------------------------------
\* components/EventFormDemo: type selection and draft creation
\* ------------------------------------------------------------------------
InitD ==
  /\ vEvent = DraftEvent("", "", NoSections)
  /\ vConfig = Unresolved
  /\ vResult = NoRun
  /\ Mounted(DraftEvent("", "", NoSections))

\* handleEventTypeChange(eventType), with the config query it enables for a
\* type that has no cached config
handleEventTypeChange(eventType) ==
  /\ demo' = [demo EXCEPT
       !.draftEventId = IF eventType # demo.selectedEventType THEN NoDraft ELSE @,
       !.isCreatingDraft = IF eventType # demo.selectedEventType THEN FALSE ELSE @,
       !.selectedEventType = eventType,
       !.loading = IF eventType \in demo.configs THEN @ ELSE @ \cup {eventType}]
  /\ UNCHANGED << vEvent, vConfig, vResult, server, cache, rendered, localValue,
                  isUpdating, error, timer, mutations, fetch, publish, hist, sec,
                  mounted, worker >>

\* handleStartOver, offered by the header rendered under
\* showFormSections && draftEventId (eventTypeConfig is the data of the config
\* query for the selected type)
handleStartOver ==
  /\ demo.selectedEventType # ""
  /\ demo.selectedEventType \in demo.configs
  /\ (demo.draftEventId # NoDraft \/ demo.isCreatingDraft)
  /\ demo.draftEventId # NoDraft
  /\ demo' = [demo EXCEPT !.draftEventId = NoDraft,
                          !.selectedEventType = "",
                          !.isCreatingDraft = FALSE]
  /\ UNCHANGED << vEvent, vConfig, vResult, server, cache, rendered, localValue,
                  isUpdating, error, timer, mutations, fetch, publish, hist, sec,
                  mounted, worker >>

\* GET /event-types/:eventType/config answers: the query holds the config
eventTypeConfigLoaded(eventType) ==
  /\ eventType \in demo.loading
  /\ demo' = [demo EXCEPT !.loading = @ \ {eventType},
                          !.configs = @ \cup {eventType}]
  /\ UNCHANGED << vEvent, vConfig, vResult, server, cache, rendered, localValue,
                  isUpdating, error, timer, mutations, fetch, publish, hist, sec,
                  mounted, worker >>

\* the useEffect that creates the draft
createDraftEffect ==
  /\ demo.selectedEventType # ""
  /\ demo.selectedEventType \in demo.configs
  /\ demo.draftEventId = NoDraft
  /\ ~demo.isCreatingDraft
  /\ demo' = [demo EXCEPT
       !.isCreatingDraft = TRUE,
       !.creates = @ + 1,
       !.requests = @ \cup {[no |-> demo.creates + 1,
                             eventType |-> demo.selectedEventType,
                             phase |-> "sent", failureCount |-> 0, id |-> NoDraft]}]
  /\ UNCHANGED << vEvent, vConfig, vResult, server, cache, rendered, localValue,
                  isUpdating, error, timer, mutations, fetch, publish, hist, sec,
                  mounted, worker >>

\* POST /events: mockEvents.set(eventId, newEvent), answered with 201
postEvents(r) ==
  /\ r.phase = "sent"
  /\ demo' = [demo EXCEPT
       !.mockEvents = Append(@, r.eventType),
       !.requests = (@ \ {r}) \cup {[r EXCEPT !.phase = "created",
                                              !.id = Len(demo.mockEvents) + 1]}]
  /\ UNCHANGED << vEvent, vConfig, vResult, server, cache, rendered, localValue,
                  isUpdating, error, timer, mutations, fetch, publish, hist, sec,
                  mounted, worker >>

\* the request fails: mutations are retried once (retry: 1), then rejected
postEventsFails(r) ==
  /\ r.phase = "sent"
  /\ demo' = [demo EXCEPT
       !.requests = (@ \ {r}) \cup
          {IF r.failureCount < 1
           THEN [r EXCEPT !.failureCount = @ + 1]
           ELSE [r EXCEPT !.phase = "failed"]}]
  /\ UNCHANGED << vEvent, vConfig, vResult, server, cache, rendered, localValue,
                  isUpdating, error, timer, mutations, fetch, publish, hist, sec,
                  mounted, worker >>

\* createDraftEventMutation onSuccess
createDraftOnSuccess(r) ==
  /\ r.phase = "created"
  /\ demo' = [demo EXCEPT !.draftEventId = r.id,
                          !.isCreatingDraft = FALSE,
                          !.requests = @ \ {r}]
  /\ UNCHANGED << vEvent, vConfig, vResult, server, cache, rendered, localValue,
                  isUpdating, error, timer, mutations, fetch, publish, hist, sec,
                  mounted, worker >>

\* createDraftEventMutation onError
createDraftOnError(r) ==
  /\ r.phase = "failed"
  /\ demo' = [demo EXCEPT !.isCreatingDraft = FALSE,
                          !.requests = @ \ {r}]
  /\ UNCHANGED << vEvent, vConfig, vResult, server, cache, rendered, localValue,
                  isUpdating, error, timer, mutations, fetch, publish, hist, sec,
                  mounted, worker >>

NextD ==
  \/ \E eventType \in EventTypes : handleEventTypeChange(eventType)
  \/ handleStartOver
  \/ \E eventType \in EventTypes : eventTypeConfigLoaded(eventType)
  \/ demo.creates < MaxCreates /\ createDraftEffect
  \/ \E r \in demo.requests : postEvents(r)
  \/ \E r \in demo.requests : postEventsFails(r)
  \/ \E r \in demo.requests : createDraftOnSuccess(r)
  \/ \E r \in demo.requests : createDraftOnError(r)

SpecD == InitD /\ [][NextD]_vars

\* useEventValidationDynamic.validationResult: the cached event and its config
cachedValidation == validateEventDynamic(cache, vConfig)

\* useEventValidationOptimized.validationResult: the cached event with the
\* section queries' data
queriedValidation ==
  validateEventDynamic(
    Put(cache, "sections",
        [persons |-> sec.query["persons"], products |-> sec.query["products"],
         vehicles |-> sec.query["vehicles"], evidence |-> <<>>]),
    vConfig)

\* ------------------------------------------------------------------------
\* Steps of a field hook as seen in a pair of states
\* ------------------------------------------------------------------------
Ids(ms) == {m.id : m \in ms}

\* the writes of field f dispatched by this step
Dispatched(f) == {m \in mutations' : m.path = f /\ m.id \notin Ids(mutations)}

\* this step is an updateValue call of field f
CallOn(f) ==
  /\ hist'.calls # hist.calls
  /\ (hist'.burst[f] # hist.burst[f] \/ timer'[f] # timer[f])

\* this step is the expiry of a debounce timer of field f
ExpiryOn(f) == hist'.calls = hist.calls /\ timer'[f] # timer[f]

\* write m fails in this step (it is settled without a response)
Fails(m) == m.id \notin Ids(mutations') /\ m.phase # "responded"

C2_RollbackRestoresPreEdit ==
  [][\A m \in mutations : Fails(m) => getNestedValue(cache', m.path) = m.preEdit]_vars

C4_OneInFlightPerPath ==
  \A f \in Paths : Cardinality({m \in mutations : m.path = f}) <= 1

\* ------------------------------------------------------------------------
\* C5 (as claimed): a publish request on a draft moves it to published when
\* the validator allows the stored document, and otherwise leaves it a draft
\* and is rejected.
\* ------------------------------------------------------------------------
C5_PublishFollowsValidator ==
  [][(publish.phase = "sent" /\ publish'.phase # "sent") =>
       IF validateEvent(server).canPublish
       THEN server'["status"] = "published"
       ELSE server'["status"] = server["status"] /\ publish'.phase = "rejected"]_vars

\* ------------------------------------------------------------------------
\* C6 (as claimed): neither the stored nor the cached status ever goes from
\* published back to draft.
\* ------------------------------------------------------------------------
C6_StatusNeverRegresses ==
  [][/\ server["status"] = "published" => server'["status"] = "published"
     /\ cache["status"] = "published" => cache'["status"] = "published"]_vars

\* ------------------------------------------------------------------------
\* C7 (as claimed): a dispatched publish request was allowed by the validator
\* run on the cached document as it was at the click.
\* ------------------------------------------------------------------------
C7_PublishUsesLiveCache ==
  publish.phase # "idle" => publish.fresh

\* ------------------------------------------------------------------------
\* C11 (as claimed): validating a document whose type discriminant is not a
\* recognized event type yields isValid = canPublish = false with a single
\* top-level error, and no rule set of another type is applied to it.
\* ------------------------------------------------------------------------
UnrecognizedType == vEvent["eventType"] \notin EventTypes

C11_UnrecognizedTypeRejected ==
  (vResult.fn \in {"static", "dynamic", "section", "staticSection"} /\ UnrecognizedType) =>
    /\ vResult.result.isValid = FALSE
    /\ vResult.result.canPublish = FALSE
    /\ \E p \in DOMAIN vResult.result.errors :
         /\ DOMAIN vResult.result.errors = {p}
         /\ Len(p) = 1
         /\ Len(vResult.result.errors[p]) = 1
    /\ vResult.fn \in {"dynamic", "section"} => ~vResult.config.resolved

\* ------------------------------------------------------------------------
\* C12 (as claimed): for a shoplifting document with valid metadata, while it
\* has no persons and no products the validation result has section errors
\* for both and canPublish = false; once one person and one product have been
\* inserted and every request and refetch has settled, the validation result
\* has no section errors and canPublish = true.
\* ------------------------------------------------------------------------
Settled == sec.reqs = {} /\ sec.stale = {} /\ sec.eventStale = {}

ShopliftingWithTitle ==
  cache["eventType"] = "shoplifting" /\ cache["metadata"]["title"] # ""

C12_ShopliftingScenario ==
  ShopliftingWithTitle =>
    /\ (SectionData(cache, "persons") = <<>> /\ SectionData(cache, "products") = <<>>) =>
          /\ {"persons", "products"} \subseteq DOMAIN cachedValidation.sectionErrors
          /\ ~cachedValidation.canPublish
    /\ (Settled /\ Len(sec.store["persons"]) = 1 /\ Len(sec.store["products"]) = 1) =>
          /\ DOMAIN cachedValidation.sectionErrors = {}
          /\ cachedValidation.canPublish
          /\ DOMAIN queriedValidation.sectionErrors = {}
          /\ queriedValidation.canPublish

\* ------------------------------------------------------------------------
\* C13 (as claimed): for an accident document validated against the accident
\* rule set (persons required, minimum 1; vehicles optional): with an empty
\* persons section the result carries a persons error and canPublish = false
\* whatever the vehicles section holds; with one person (a name, role
\* witness, age 40) on an otherwise valid document there are no errors and
\* canPublish = true even with zero vehicles.
\* ------------------------------------------------------------------------
AccidentRun ==
  /\ vEvent["eventType"] = "accident"
  /\ \/ vResult.fn = "static"
     \/ vResult.fn = "dynamic" /\ vResult.config = mockEventTypes("accident")

C13_AccidentScenario ==
  AccidentRun =>
    /\ SectionData(vEvent, "persons") = <<>> =>
         /\ "persons" \in DOMAIN vResult.result.sectionErrors
         /\ vResult.result.canPublish = FALSE
    /\ (/\ SectionData(vEvent, "persons") = << Person("p1", "Jane") >>
        /\ vEvent["metadata"]["title"] # ""
        /\ SectionData(vEvent, "vehicles") = <<>>) =>
         /\ DOMAIN vResult.result.errors = {}
         /\ vResult.result.canPublish = TRUE

\* ------------------------------------------------------------------------
\* C14 (as claimed): a patch of one field path, applied to the cached
\* document (the optimistic write) or to the stored document (the PATCH
\* handlers), leaves every sibling metadata field and every section of that
\* document exactly as it was.
\* ------------------------------------------------------------------------
SiblingsKept(before, after, f) ==
  /\ "metadata" \in DOMAIN after /\ "sections" \in DOMAIN after
  /\ \A k \in DOMAIN before["metadata"] \ {f[2]} :
       k \in DOMAIN after["metadata"] /\ after["metadata"][k] = before["metadata"][k]
  /\ after["sections"] = before["sections"]

\* write m reaches the store in this step
AppliedNow(m) == m.phase = "sent" /\ \E m2 \in mutations' : m2.id = m.id /\ m2.phase = "applied"

C14_PatchKeepsSiblings ==
  [][ /\ \A f \in Paths : Dispatched(f) # {} => SiblingsKept(cache, cache', f)
      /\ \A m \in mutations : AppliedNow(m) =>
           /\ SiblingsKept(server, server', m.path)
           /\ SiblingsKept(server, browserPatch(server, m.data), m.path) ]_vars

\* ------------------------------------------------------------------------
\* C15: an insert into or a removal from section S (the request, its
\* handling by the store, its callbacks and the refetches it triggers)
\* leaves the cached collection of every other section T, in the event cache
\* and in T's own query, and the validation errors shown for T unchanged.
\* ------------------------------------------------------------------------
\* the sections whose operation this step belongs to
Touched ==
  {r.section : r \in (sec.reqs \cup sec'.reqs) \ (sec.reqs \cap sec'.reqs)}
  \cup (sec.stale \ sec'.stale)
  \cup (IF sec'.eventStale = {} THEN sec.eventStale ELSE {})

ErrorsFor(result, sectionId) ==
  IF sectionId \in DOMAIN result.sectionErrors THEN {result.sectionErrors[sectionId]} ELSE {}

\* what the section components show: useSectionValidationDynamic,
\* useSectionValidation, useSectionValidationOptimized
ErrorState(sectionId) ==
  << ErrorsFor(validateSectionDynamic(sectionId, SectionData(cache, sectionId), vConfig), sectionId),
     ErrorsFor(validateSection(sectionId, SectionData(cache, sectionId), cache["eventType"]), sectionId),
     ErrorsFor(validateSectionDynamic(sectionId, sec.query[sectionId], vConfig), sectionId) >>

ValidatorRuns == vResult' # vResult /\ vResult'.fn # "none"

C16_ValidatorsArePure ==
  [][ ValidatorRuns => (vEvent' = vEvent /\ vConfig' = vConfig) ]_vars

\* ------------------------------------------------------------------------
\* C17: a publish action on a document that is already published is rejected
\* or has no effect. The publish button is offered only while the rendered
\* document is a draft; a publish request served for a stored document that
\* is already published leaves the stored document exactly as it was (an
\* accepted request answers with that same document); and the settling of a
\* publish request never takes a cached status published back.
\* ------------------------------------------------------------------------
PublishClicked == hist'.clicks # hist.clicks

PublishServed == publish.phase = "sent" /\ publish'.phase \in {"accepted", "rejected"}

PublishSettled == publish.phase \in {"accepted", "rejected"} /\ publish'.phase = "idle"

C17_PublishedIsTerminal ==
  [][ /\ PublishClicked => rendered["status"] # "published"
      /\ (PublishServed /\ server["status"] = "published") =>
           /\ server' = server
           /\ publish'.phase = "accepted" => publish'.doc = server
      /\ (PublishSettled /\ cache["status"] = "published") =>
           cache'["status"] = "published" ]_vars

\* a second publish request was rejected for a stored document that the
\* first one had published
C17_Witness ==
  /\ hist.clicks = 2
  /\ publish.phase = "rejected"
  /\ server["status"] = "published"

\* ------------------------------------------------------------------------
\* C18 (as claimed): a vandalism document with no evidence entries (no
\* evidence key, or an empty evidence list) is reported invalid and not
\* publishable by the document validators, with an error for the evidence
\* section; an empty persons list is never an error on a vandalism document.
\* ------------------------------------------------------------------------
VandalismRun ==
  /\ vEvent["eventType"] = "vandalism"
  /\ \/ vResult.fn = "static"
     \/ vResult.fn = "dynamic" /\ vResult.config.resolved

C18_VandalismNeedsEvidence ==
  VandalismRun =>
    /\ SectionData(vEvent, "evidence") = <<>> =>
         /\ vResult.result.isValid = FALSE
         /\ vResult.result.canPublish = FALSE
    /\ SectionData(vEvent, "persons") = <<>> =>
         "persons" \notin DOMAIN vResult.result.sectionErrors

\* ------------------------------------------------------------------------
\* C19: unmounting a field cancels its pending timer, so that no write is
\* dispatched for the field from the unmount on; the unmount leaves the
\* writes already dispatched in flight and the cache as it is; every write
\* in flight at or after the unmount settles, and the step that settles it
\* writes its outcome to the cache (the response on success, the snapshot
\* taken at dispatch on failure).
\* ------------------------------------------------------------------------
Unmounts(f) == mounted[f] /\ ~mounted'[f]

SettledNow(m) == m.id \notin { n.id : n \in mutations' }

InFlightRemoves(s) == {r \in s.reqs : r.kind = "remove" /\ r.phase \in {"sent", "ok"}}

FailedRemoves(s) == {r \in s.reqs : r.kind = "remove" /\ r.phase = "failed"}

C20_RemoveIsOptimistic ==
  [][ /\ \A r \in InFlightRemoves(sec') :
           /\ r.entity.id \notin EntityIds(sec'.query[r.section])
           /\ r.entity.id \notin EntityIds(SectionData(cache', r.section))
      /\ \A r \in FailedRemoves(sec) \ sec'.reqs :
           r.entity.id \in EntityIds(sec.store[r.section]) =>
             r.entity.id \in EntityIds(sec'.query[r.section]) ]_vars

\* ------------------------------------------------------------------------
\* C21 (as claimed): when a failed create request is settled, the cached
\* collection of its section (the section query and the sections of the
\* cached event) holds no entry for the attempted entity: it is what it was
\* before the request; and the messages the section shows change, so that
\* the failure is surfaced for that section.
\* ------------------------------------------------------------------------
FailedInserts(s) == {r \in s.reqs : r.kind = "insert" /\ r.phase = "failed"}

C21_FailedInsertSurfaced ==
  [][ \A r \in FailedInserts(sec) \ sec'.reqs :
        /\ sec'.query[r.section] = sec.query[r.section]
        /\ SectionData(cache', r.section) = SectionData(cache, r.section)
        /\ ErrorState(r.section)' # ErrorState(r.section) ]_vars

\* ------------------------------------------------------------------------
\* C22 (as claimed): a PATCH served for an id the store does not know leaves
\* the store without a document for that id and is answered 404 (NotFound);
\* the cache writes of a dispatch for an id the cache does not know leave
\* the cache without a document for that id.
\* ------------------------------------------------------------------------
C22_UnknownIdPatchIsNotFound ==
  [][ /\ (vResult'.fn = "patch" /\ server = Absent) =>
           /\ server' = Absent
           /\ vResult'.status = 404
      /\ (vResult'.fn = "onMutate" /\ cache = Absent) => cache' = Absent ]_vars

\* ------------------------------------------------------------------------
\* C23 (as claimed): the id the POST handler of a section gives a new entity
\* was never given to an entity of that section before (so it is neither the
\* id of a stored entity nor the id of a removed one), and the stored and
\* cached collections of a section never hold two entities with the same id.
\* ------------------------------------------------------------------------
Created == {r \in sec'.reqs \ sec.reqs : r.kind = "insert" /\ r.phase = "ok"}

DistinctIds(arr) == Cardinality(EntityIds(arr)) = Len(arr)

C23_EntityIdsUnique ==
  [][ /\ \A r \in Created : r.entity.id \notin sec.issued[r.section]
      /\ \A s \in SectionIds :
           /\ DistinctIds(sec'.store[s])
           /\ DistinctIds(sec'.query[s])
           /\ DistinctIds(SectionData(cache', s)) ]_vars

\* ------------------------------------------------------------------------
\* C24 (as claimed): a step that writes the cache on behalf of field path A
\* (the optimistic apply of a dispatch, the reconciliation of a successful
\* write, the rollback of a failed one) leaves the cached value of every
\* other field path B as it was.
\* ------------------------------------------------------------------------
CacheWriteFor(A) ==
  \/ Dispatched(A) # {}
  \/ \E m \in mutations : m.path = A /\ SettledNow(m)

C24_OtherPathsKeepCachedValue ==
  [][ \A A \in Paths : \A B \in Paths \ {A} :
        CacheWriteFor(A) => getNestedValue(cache', B) = getNestedValue(cache, B) ]_vars

\* ------------------------------------------------------------------------
\* C25 (as claimed): in the step that dispatches a write of an entity field,
\* the cached collection already holds the written value at that field.
\* ------------------------------------------------------------------------
C25_EntityWriteIsOptimistic ==
  [][ \A m \in Dispatched(NamePath) :
        entityField(sec'.query["persons"], m.path[2], m.path[3]) = m.value ]_vars

\* ------------------------------------------------------------------------
\* C26 (as claimed): in the step that settles a failed field write, the
\* field's draft becomes the value the cache held for the field before the
\* edit was applied, the error message is set and isUpdating is false.
\* ------------------------------------------------------------------------
C26_FailureRevertsDraft ==
  [][ \A m \in mutations :
        Fails(m) =>
          /\ localValue'[m.path] = m.preEdit
          /\ error'[m.path]
          /\ ~isUpdating'[m.path] ]_vars

\* ------------------------------------------------------------------------
\* C27 (as claimed): while a write dispatched by a field hook has not
\* settled, the hook's isUpdating flag is true.
\* ------------------------------------------------------------------------
UnsettledWrites(f) == {m \in mutations : m.path = f}

C27_UpdatingWhileInFlight ==
  \A f \in DOMAIN isUpdating : UnsettledWrites(f) # {} => isUpdating[f]

\* ------------------------------------------------------------------------
\* C28 (as claimed): once an entity field has no pending timer and no write
\* in flight, and none of its writes failed, the stored value of the field
\* equals the value the field displays.
\* ------------------------------------------------------------------------
Quiescent(f) == timer[f] = {} /\ UnsettledWrites(f) = {} /\ hist.failures = 0

C28_StoredValueIsDisplayedValue ==
  Quiescent(NamePath) =>
    entityField(sec.store["persons"], NamePath[2], NamePath[3]) = localValue[NamePath]

\* ------------------------------------------------------------------------
\* C29 (as claimed): a publish request served for a stored document that the
\* client-side validator reports as publishable (canPublish = true) is
\* accepted by the publish handler.
\* ------------------------------------------------------------------------
C29_ClientPublishableIsAccepted ==
  [][ (PublishServed /\ validateEvent(server).canPublish) =>
        publish'.phase = "accepted" ]_vars

\* ------------------------------------------------------------------------
\* C30 (as claimed): whenever EventFormDemo holds a draft event id, that
\* draft was created for the currently selected event type, and at most one
\* create-draft request is in flight at a time.
\* ------------------------------------------------------------------------
CreatesInFlight == {r \in demo.requests : r.phase = "sent"}

C30_DraftMatchesSelectedType ==
  /\ demo.draftEventId # NoDraft =>
       demo.mockEvents[demo.draftEventId] = demo.selectedEventType
  /\ Cardinality(CreatesInFlight) <= 1

====
